---- MODULE Spec2Model ----
(***************************************************************************)
(* Access and monetization gate of the Telegram bot (src/main.py) and the  *)
(* account store of src/db.py.                                             *)
(*                                                                         *)
(* The SQLite tables are functions and sets, every helper of the "DB"      *)
(* section of main.py is an operator from a table to the table after the   *)
(* call, and every handler is one action per stretch of code between two   *)
(* await points: the handlers are coroutines on one event loop, so only an *)
(* await lets another handler run.                                         *)
(*                                                                         *)
(* Time is counted in ticks, TicksPerDay ticks to a calendar day of the    *)
(* bot's time zone.  A timestamp column (vip_until) holds a tick, a date   *)
(* column (last_reset) holds a day number: isoformat() followed by         *)
(* fromisoformat().replace(tzinfo=tz) gives back the instant it was given  *)
(* (both sides use the one zone tz), and two ISO dates are equal as text   *)
(* exactly when the days are equal.  NULL is the SQL NULL / Python None.   *)
(***************************************************************************)
EXTENDS Integers, Sequences, FiniteSets, Bags, TLC

(* ------------------------------------------------------------------ *)
(* Configuration: read from the environment at start-up, src/main.py  *)
(* lines 39-47.  The values are those of the checked deployment; the  *)
(* defaults in the source are 3, 30, 5, 3 and 3.                      *)
(* ------------------------------------------------------------------ *)
DAILY_LIMIT == 2
VIP_DAYS == 1
REF_BONUS_CREDITS == 2
REF_VIP_INVITES == 2
REF_VIP_DAYS == 2
CHALLENGE_DAILY_GATE == TRUE

(* ------------------------------------------------------------------ *)
(* Bounds of the model.                                               *)
(* ------------------------------------------------------------------ *)
NumIds == 4
NumLedger == 3
NumFriends == 1
TicksPerDay == 2
MaxTime == 3
MaxTasks == 2
MaxPayments == 2
MaxDays == 2
MaxVipUntil == 8

\* Telegram user ids.
Ids == 1..NumIds

\* The ids that act where every one of them may name every other.
Ledger == 1..NumLedger

\* The account whose messages, buttons and payments are followed step by
\* step.  A handler touches only the row of its own user, except start_cmd,
\* which also touches the row of the inviter it names.
Subjects == {1}

\* The subject and the friends who open the bot while the subject is
\* followed.
Circle == 1..(1 + NumFriends)

\* SQL NULL / Python None in a date or timestamp column.
NULL == -9
NoRow == [exists |-> FALSE]

Modes == {"menu", "ask", "reels", "photo_wait", "photo_goal"}

\* Offsets, in ticks, of the process's local zone from the zone tz.
Skews == {-1, 0}

VARIABLES
    program,    \* which of the two stores the run is of: "main.py" or "db.py"
    skew,       \* local zone of the process minus tz, fixed at start-up
    now,        \* datetime.now(tz), in ticks
    users,      \* table users of main.py: tg_id -> row, or NoRow
    referrals,  \* table referrals of main.py: set of <<inviter_id, invited_id>>
    payments,   \* table payments of main.py: sequence of tg_id
    tasks,      \* bag of the handler coroutines suspended at an await
    ev,         \* what the step just taken read and decided, when it is the
                \* quota decision of text_msg; NoEv after any other step
    db_users,     \* table users of db.py: user_id -> row, or NoRow
    db_referrals  \* table referrals of db.py: set of <<referrer_id, referred_id>>

main_vars == <<skew, now, users, referrals, payments, tasks, ev>>

db_vars == <<db_users, db_referrals>>

vars == <<program, main_vars, db_vars>>

NoEv == [op |-> "none"]

(* ------------------------------------------------------------------ *)
(* Clock                                                              *)
(* ------------------------------------------------------------------ *)
day_of(t) == t \div TicksPerDay

today_str(t) == day_of(t)

timedelta(days) == days * TicksPerDay

\* date.today() of upsert_user is the date in the process's local zone, not
\* in tz (TZ_NAME falls back to Asia/Tokyo when the environment sets no TZ).
date_today(t, sk) == day_of(t + sk)

(* ------------------------------------------------------------------ *)
(* DB helpers of main.py                                              *)
(* ------------------------------------------------------------------ *)
NewRow(local_today) ==
    [exists |-> TRUE, mode |-> "menu", used_today |-> 0,
     last_reset |-> local_today, vip_until |-> NULL, credits |-> 0,
     challenge_day |-> 0, challenge_last_claim |-> NULL]

\* upsert_user as INSERT OR REPLACE: a known user gets a fresh row.
upsert_user_replace(U, tg_id, local_today) ==
    [U EXCEPT ![tg_id] = NewRow(local_today)]

upsert_user(U, tg_id, local_today) ==
    IF ~U[tg_id].exists
    THEN [U EXCEPT ![tg_id] = NewRow(local_today)]
    ELSE U

get_user(U, tg_id) == U[tg_id]

set_mode(U, tg_id, mode) ==
    IF U[tg_id].exists THEN [U EXCEPT ![tg_id].mode = mode] ELSE U

add_credits(U, tg_id, n) ==
    IF U[tg_id].exists THEN [U EXCEPT ![tg_id].credits = @ + n] ELSE U

\* take_credit_if_any without its test credits > 0: what the claim that
\* credits stay non-negative must exclude.
take_credit_unguarded(U, tg_id) ==
    IF U[tg_id].exists
    THEN [ret |-> TRUE, users |-> [U EXCEPT ![tg_id].credits = @ - 1]]
    ELSE [ret |-> FALSE, users |-> U]

\* [ret |-> the value returned, users |-> the table after the call]
take_credit_if_any(U, tg_id) ==
    LET c == IF U[tg_id].exists THEN U[tg_id].credits ELSE 0
    IN  IF c > 0
        THEN [ret |-> TRUE, users |-> [U EXCEPT ![tg_id].credits = @ - 1]]
        ELSE [ret |-> FALSE, users |-> U]

\* is_vip counting the instant vip_until itself as still VIP.
is_vip_inclusive(row, t) ==
    IF ~row.exists THEN FALSE
    ELSE IF row.vip_until = NULL THEN FALSE
    ELSE row.vip_until >= t

is_vip(row, t) ==
    IF ~row.exists THEN FALSE
    ELSE IF row.vip_until = NULL THEN FALSE
    ELSE row.vip_until > t

\* extend_vip counting from now whatever vip_until holds, as set_vip does.
extend_vip_from_now(U, tg_id, days, t) ==
    LET until == t + timedelta(days)
    IN  IF U[tg_id].exists THEN [U EXCEPT ![tg_id].vip_until = until] ELSE U

extend_vip(U, tg_id, days, t) ==
    LET row == get_user(U, tg_id)
        base == IF row.exists /\ row.vip_until # NULL
                THEN (IF row.vip_until > t THEN row.vip_until ELSE t)
                ELSE t
        until == base + timedelta(days)
    IN  IF U[tg_id].exists THEN [U EXCEPT ![tg_id].vip_until = until] ELSE U

\* reset_if_needed that moves last_reset but keeps the stale used_today.
reset_keeps_usage(U, tg_id, t) ==
    IF ~U[tg_id].exists THEN U
    ELSE IF U[tg_id].last_reset # today_str(t)
         THEN [U EXCEPT ![tg_id].last_reset = today_str(t)]
         ELSE U

reset_if_needed(U, tg_id, t) ==
    IF ~U[tg_id].exists THEN U
    ELSE IF U[tg_id].last_reset # today_str(t)
         THEN [U EXCEPT ![tg_id].used_today = 0,
                        ![tg_id].last_reset = today_str(t)]
         ELSE U

\* inc_usage charging a request twice.
inc_usage_twice(U, tg_id) ==
    IF U[tg_id].exists THEN [U EXCEPT ![tg_id].used_today = @ + 2] ELSE U

inc_usage(U, tg_id) ==
    IF U[tg_id].exists THEN [U EXCEPT ![tg_id].used_today = @ + 1] ELSE U

\* set_vip without the timedelta: vip_until is the time of the payment.
set_vip_days_dropped(U, tg_id, days, t) ==
    LET until == t
    IN  IF U[tg_id].exists THEN [U EXCEPT ![tg_id].vip_until = until] ELSE U

set_vip(U, tg_id, days, t) ==
    LET until == t + timedelta(days)
    IN  IF U[tg_id].exists THEN [U EXCEPT ![tg_id].vip_until = until] ELSE U

log_payment(P, tg_id) == Append(P, tg_id)

\* Variants of referral_try_add, each without one of its safeguards: the
\* key is the pair (as in db.py); a later inviter replaces the stored one;
\* inviter = invited is accepted.
referral_add_pair_key(R, inviter_id, invited_id) ==
    IF inviter_id = invited_id THEN [ret |-> FALSE, referrals |-> R]
    ELSE IF <<inviter_id, invited_id>> \in R
         THEN [ret |-> FALSE, referrals |-> R]
         ELSE [ret |-> TRUE, referrals |-> R \cup {<<inviter_id, invited_id>>}]

referral_add_or_replace(R, inviter_id, invited_id) ==
    IF inviter_id = invited_id THEN [ret |-> FALSE, referrals |-> R]
    ELSE IF <<inviter_id, invited_id>> \in R
         THEN [ret |-> FALSE, referrals |-> R]
         ELSE [ret |-> TRUE,
               referrals |-> {e \in R : e[2] # invited_id}
                                 \cup {<<inviter_id, invited_id>>}]

referral_add_self_too(R, inviter_id, invited_id) ==
    IF \E e \in R : e[2] = invited_id
    THEN [ret |-> FALSE, referrals |-> R]
    ELSE [ret |-> TRUE, referrals |-> R \cup {<<inviter_id, invited_id>>}]

\* invited_id is UNIQUE: the INSERT raises IntegrityError when the invited
\* user already has a row, whoever the inviter is.
referral_try_add(R, inviter_id, invited_id) ==
    IF inviter_id = invited_id THEN [ret |-> FALSE, referrals |-> R]
    ELSE IF \E e \in R : e[2] = invited_id
         THEN [ret |-> FALSE, referrals |-> R]
         ELSE [ret |-> TRUE, referrals |-> R \cup {<<inviter_id, invited_id>>}]

referral_count(R, inviter_id) == Cardinality({e \in R : e[1] = inviter_id})

\* challenge_can_advance that never looks at challenge_last_claim.
challenge_can_advance_always(row, t) == TRUE

challenge_can_advance(row, t) ==
    IF ~CHALLENGE_DAILY_GATE THEN TRUE
    ELSE (IF row.exists THEN row.challenge_last_claim ELSE NULL) # today_str(t)

challenge_set_day(U, tg_id, day, t) ==
    IF U[tg_id].exists
    THEN [U EXCEPT ![tg_id].challenge_day = day,
                   ![tg_id].challenge_last_claim = today_str(t)]
    ELSE U

(* ------------------------------------------------------------------ *)
(* Initial state: init_db() on an empty database, no update received. *)
(* ------------------------------------------------------------------ *)
InitTables ==
    /\ skew \in Skews
    /\ now = 0
    /\ users = [i \in Ids |-> NoRow]
    /\ referrals = {}
    /\ payments = <<>>
    /\ tasks = EmptyBag
    /\ ev = NoEv
    /\ db_users = [i \in Ids |-> NoRow]
    /\ db_referrals = {}

Init == program = "main.py" /\ InitTables

(* ------------------------------------------------------------------ *)
(* Environment: time passes.                                          *)
(* ------------------------------------------------------------------ *)
Tick ==
    /\ now < MaxTime
    /\ now' = now + 1
    /\ ev' = NoEv
    /\ UNCHANGED <<program, skew, users, referrals, payments, tasks, db_vars>>

(* ------------------------------------------------------------------ *)
(* /start [ref_<inviter>]: no await before the closing reply, so the   *)
(* handler is one step.                                               *)
(* ------------------------------------------------------------------ *)
NoArg == 0

\* The referral block granting the reward whatever referral_try_add said.
start_referral_grant_always(U, R, u, inviter_id, t) ==
    LET r == referral_try_add(R, inviter_id, u)
        U1 == add_credits(U, inviter_id, REF_BONUS_CREDITS)
        cnt == referral_count(r.referrals, inviter_id)
        U2 == IF cnt >= REF_VIP_INVITES
              THEN extend_vip(U1, inviter_id, REF_VIP_DAYS, t)
              ELSE U1
    IN  [added |-> r.ret, users |-> U2, referrals |-> r.referrals]

\* The referral block of start_cmd, lines 724-736:
\* [added |-> what referral_try_add returned, users, referrals |-> the
\* tables after the block].
start_referral(U, R, u, inviter_id, t) ==
    LET r == referral_try_add(R, inviter_id, u)
        U1 == add_credits(U, inviter_id, REF_BONUS_CREDITS)
        cnt == referral_count(r.referrals, inviter_id)
        U2 == IF cnt >= REF_VIP_INVITES
              THEN extend_vip(U1, inviter_id, REF_VIP_DAYS, t)
              ELSE U1
    IN  IF r.ret
        THEN [added |-> TRUE, users |-> U2, referrals |-> r.referrals]
        ELSE [added |-> FALSE, users |-> U, referrals |-> R]

start_cmd(u, arg) ==
    /\ LET U0 == upsert_user(users, u, date_today(now, skew))
           s == IF arg = NoArg
                THEN [added |-> FALSE, users |-> U0, referrals |-> referrals]
                ELSE start_referral(U0, referrals, u, arg, now)
       IN  /\ users' = s.users
           /\ referrals' = s.referrals
           /\ ev' = NoEv
    /\ UNCHANGED <<program, skew, now, payments, tasks, db_vars>>

(* ------------------------------------------------------------------ *)
(* Channel gate                                                       *)
(* ------------------------------------------------------------------ *)
\* The users table has no column for a secondary verification and no
\* handler records one: no account is ever secondary-verified.
secondary_verified(row) == FALSE

\* What get_chat_member can come back with: a member status, or an error.
MemberOutcomes ==
    {"member", "administrator", "creator", "restricted", "left", "kicked",
     "error"}

\* The lenient policy: an error of get_chat_member lets the user in.
is_subscribed_lenient(outcome) ==
    outcome \in {"member", "administrator", "creator", "error"}

is_subscribed(outcome) == outcome \in {"member", "administrator", "creator"}

(* ------------------------------------------------------------------ *)
(* Handler coroutines.  A task is a handler suspended at an await     *)
(* after which it still reads or writes the tables:                   *)
(*   pc = "gate"   in require_sub / is_subscribed (get_chat_member)   *)
(*   pc = "ai"     in ask_openai, or in the reply_text that follows   *)
(* data is the callback data of cbq, and the mode text_msg has read.  *)
(* ------------------------------------------------------------------ *)
NoVal == "-"

Task(h, u, pc, data) == [h |-> h, u |-> u, pc |-> pc, data |-> data]

Spawn(T, tk) == T (+) SetToBag({tk})

Retire(T, tk) == T (-) SetToBag({tk})

Running == BagToSet(tasks)

\* An update arrives: the handler runs up to its first await on the
\* membership check.  upsert_user is the only statement before it that
\* touches the tables.
Begin(h, u, data) ==
    /\ BagCardinality(tasks) < MaxTasks
    /\ users' = upsert_user(users, u, date_today(now, skew))
    /\ tasks' = Spawn(tasks, Task(h, u, "gate", data))
    /\ ev' = NoEv
    /\ UNCHANGED <<program, skew, now, referrals, payments, db_vars>>

\* cbq, from the answer of the membership check to the end: the branches
\* that set the mode (check_sub has its own check instead of require_sub).
cbq_mode(data) ==
    CASE data = "check_sub" -> "menu"
      [] data = "menu" -> "menu"
      [] data = "photo" -> "photo_wait"
      [] data = "photo_tool" -> "photo_goal"
      [] data = "reels" -> "reels"
      [] data = "ask" -> "ask"

\* The buttons of cbq that set the mode, and the other gated buttons.
ModeButtons == {"check_sub", "menu", "photo", "photo_tool", "reels", "ask"}

Buttons == ModeButtons \cup {"challenge_start", "challenge_done", "daily"}

\* The challenge_done branch without its test for the last day.
challenge_done_unbounded(U, u, t) ==
    LET row == get_user(U, u)
        day0 == IF row.exists THEN row.challenge_day ELSE 0
        day == IF day0 > 30 THEN 30 ELSE IF day0 < 0 THEN 0 ELSE day0
    IN  IF day <= 0 THEN U
        ELSE IF ~challenge_can_advance(row, t) THEN U
        ELSE challenge_set_day(U, u, day + 1, t)

\* The challenge_done branch, lines 967-1000.
challenge_done(U, u, t) ==
    LET row == get_user(U, u)
        day0 == IF row.exists THEN row.challenge_day ELSE 0
        day == IF day0 > 30 THEN 30 ELSE IF day0 < 0 THEN 0 ELSE day0
    IN  IF day <= 0 THEN U
        ELSE IF ~challenge_can_advance(row, t) THEN U
        ELSE IF day >= 30 THEN U
        ELSE challenge_set_day(U, u, day + 1, t)

\* cbq setting the mode before it looks at the membership check.
cbq_effect_mode_first(U, tk, outcome, t) ==
    IF tk.data \in ModeButtons THEN set_mode(U, tk.u, cbq_mode(tk.data))
    ELSE IF ~is_subscribed(outcome) THEN U
    ELSE IF tk.data = "challenge_start" THEN challenge_set_day(U, tk.u, 1, t)
    ELSE IF tk.data = "challenge_done" THEN challenge_done(U, tk.u, t)
    ELSE U

\* The table users after cbq has run from the answer of the membership
\* check to its end.  "daily" stands for the buttons that only show
\* something (daily, challenge, prompts, cat:, p:, ref, vip, buy_vip).
cbq_effect(U, tk, outcome, t) ==
    IF ~is_subscribed(outcome) THEN U
    ELSE IF tk.data \in ModeButtons THEN set_mode(U, tk.u, cbq_mode(tk.data))
    ELSE IF tk.data = "challenge_start" THEN challenge_set_day(U, tk.u, 1, t)
    ELSE IF tk.data = "challenge_done" THEN challenge_done(U, tk.u, t)
    ELSE U

cbq(tk, outcome) ==
    /\ tk \in Running /\ tk.h = "cbq" /\ tk.pc = "gate"
    /\ users' = cbq_effect(users, tk, outcome, now)
    /\ tasks' = Retire(tasks, tk)
    /\ ev' = NoEv
    /\ UNCHANGED <<program, skew, now, referrals, payments, db_vars>>

\* The ask branch with the limit test off by one (used > DAILY_LIMIT).
ask_charge_off_by_one(U, u, t) ==
    LET U1 == reset_if_needed(U, u, t)
        row == get_user(U1, u)
        vip == is_vip(row, t)
        used == IF row.exists THEN row.used_today ELSE 0
        tc == take_credit_if_any(U1, u)
    IN  IF (~vip) /\ used > DAILY_LIMIT
        THEN IF tc.ret
             THEN [users |-> tc.users, used |-> used, vip |-> vip, cost |-> "bonus"]
             ELSE [users |-> U1, used |-> used, vip |-> vip, cost |-> "denied"]
        ELSE IF ~vip
             THEN [users |-> inc_usage(U1, u), used |-> used, vip |-> vip,
                   cost |-> "quota"]
             ELSE [users |-> U1, used |-> used, vip |-> vip, cost |-> "vip"]

\* The ask branch of text_msg, lines 1184-1205, which has no await before
\* line 1193: [users |-> the table after it, used, vip |-> the locals,
\* cost |-> what the request was charged to, or "denied"].
ask_charge(U, u, t) ==
    LET U1 == reset_if_needed(U, u, t)
        row == get_user(U1, u)
        vip == is_vip(row, t)
        used == IF row.exists THEN row.used_today ELSE 0
        tc == take_credit_if_any(U1, u)
    IN  IF (~vip) /\ used >= DAILY_LIMIT
        THEN IF tc.ret
             THEN [users |-> tc.users, used |-> used, vip |-> vip, cost |-> "bonus"]
             ELSE [users |-> U1, used |-> used, vip |-> vip, cost |-> "denied"]
        ELSE IF ~vip
             THEN [users |-> inc_usage(U1, u), used |-> used, vip |-> vip,
                   cost |-> "quota"]
             ELSE [users |-> U1, used |-> used, vip |-> vip, cost |-> "vip"]

\* text_msg, from the answer of the membership check to the next await
\* after which it touches the tables again, or to its end.
\* [users |-> the table after it, ai |-> whether the handler goes on to
\* ask_openai, mode |-> the mode it has read, ev |-> what it decided].
text_msg_effect(U, tk, outcome, t) ==
    LET row == get_user(U, tk.u)
        mode == IF row.exists THEN row.mode ELSE "menu"
        a == ask_charge(U, tk.u, t)
    IN  IF ~is_subscribed(outcome)
        THEN [users |-> U, ai |-> FALSE, mode |-> mode, ev |-> NoEv]
        ELSE IF mode \in {"reels", "photo_goal"}
        THEN [users |-> U, ai |-> TRUE, mode |-> mode, ev |-> NoEv]
        ELSE IF mode = "ask"
        THEN [users |-> a.users, ai |-> a.cost # "denied", mode |-> mode,
              ev |-> [op |-> "ask", u |-> tk.u, pre |-> row,
                      used |-> a.used, vip |-> a.vip, cost |-> a.cost]]
        ELSE [users |-> U, ai |-> FALSE, mode |-> mode, ev |-> NoEv]

text_msg(tk, outcome) ==
    /\ tk \in Running /\ tk.h = "text_msg" /\ tk.pc = "gate"
    /\ LET e == text_msg_effect(users, tk, outcome, now)
       IN  /\ users' = e.users
           /\ tasks' = IF e.ai
                       THEN Spawn(Retire(tasks, tk),
                                  Task("text_msg", tk.u, "ai", e.mode))
                       ELSE Retire(tasks, tk)
           /\ ev' = e.ev
    /\ UNCHANGED <<program, skew, now, referrals, payments, db_vars>>

\* The commands that set the mode after the gate (menu_cmd, ask_cmd,
\* reels_cmd, photo_cmd); "prompts" stands for those that only show
\* something (prompts_cmd, vip_cmd, challenge_cmd, refer_cmd).
ModeCommands == {"menu", "ask", "reels", "photo"}

Commands == ModeCommands \cup {"prompts"}

cmd_mode(data) == IF data = "photo" THEN "photo_wait" ELSE data

cmd_effect(U, tk, outcome) ==
    IF ~is_subscribed(outcome) THEN U
    ELSE IF tk.data \in ModeCommands THEN set_mode(U, tk.u, cmd_mode(tk.data))
    ELSE U

cmd(tk, outcome) ==
    /\ tk \in Running /\ tk.h = "cmd" /\ tk.pc = "gate"
    /\ users' = cmd_effect(users, tk, outcome)
    /\ tasks' = Retire(tasks, tk)
    /\ ev' = NoEv
    /\ UNCHANGED <<program, skew, now, referrals, payments, db_vars>>

\* ask_openai after which the reels and photo_goal branches forget their
\* closing set_mode.
ask_openai_mode_kept(tk, ok) ==
    /\ tk \in Running /\ tk.pc = "ai"
    /\ users' = users
    /\ tasks' = Retire(tasks, tk)
    /\ ev' = NoEv
    /\ UNCHANGED <<program, skew, now, referrals, payments, db_vars>>

\* ask_openai that gives the unit back when OpenAI failed.
ask_openai_refund(tk, ok) ==
    /\ tk \in Running /\ tk.pc = "ai"
    /\ users' = IF tk.data \in {"reels", "photo_goal"}
                THEN set_mode(users, tk.u, "menu")
                ELSE IF ~ok /\ users[tk.u].exists /\ users[tk.u].used_today > 0
                THEN [users EXCEPT ![tk.u].used_today = @ - 1]
                ELSE users
    /\ tasks' = Retire(tasks, tk)
    /\ ev' = NoEv
    /\ UNCHANGED <<program, skew, now, referrals, payments, db_vars>>

\* ask_openai comes back, with an answer or with the apology of its except
\* branch, the reply goes out and the handler runs to its end: in the
\* reels and photo_goal branches set_mode(u.id, "menu") is still to come.
ask_openai(tk, ok) ==
    /\ tk \in Running /\ tk.pc = "ai"
    /\ users' = IF tk.data \in {"reels", "photo_goal"}
                THEN set_mode(users, tk.u, "menu")
                ELSE users
    /\ tasks' = Retire(tasks, tk)
    /\ ev' = NoEv
    /\ UNCHANGED <<program, skew, now, referrals, payments, db_vars>>

\* successful_payment: no gate, no upsert_user, and no await before the
\* closing reply.  Telegram sends it for an invoice, which only the
\* buy_vip branch of cbq sends, after its upsert_user.
successful_payment(u) ==
    /\ users[u].exists
    /\ Len(payments) < MaxPayments
    /\ payments' = log_payment(payments, u)
    /\ users' = set_vip(users, u, VIP_DAYS, now)
    /\ ev' = NoEv
    /\ UNCHANGED <<program, skew, now, referrals, tasks, db_vars>>

(* ------------------------------------------------------------------ *)
(* The bot around one account: the subject uses the bot, the circle   *)
(* opens it with and without referral links, time passes.             *)
(* ------------------------------------------------------------------ *)
Next ==
    \/ Tick
    \/ \E u \in Circle, arg \in Circle \cup {NoArg} : start_cmd(u, arg)
    \/ \E u \in Subjects, data \in {"ask", "menu"} : Begin("cbq", u, data)
    \/ \E u \in Subjects : Begin("text_msg", u, NoVal)
    \/ \E tk \in Running, outcome \in MemberOutcomes : cbq(tk, outcome)
    \/ \E tk \in Running, outcome \in MemberOutcomes : text_msg(tk, outcome)
    \/ \E tk \in Running, ok \in BOOLEAN : ask_openai(tk, ok)
    \/ \E u \in Subjects : successful_payment(u)

Spec == Init /\ [][Next]_vars

(* ------------------------------------------------------------------ *)
(* The gate: the subject alone presses every button, sends every      *)
(* command and writes, with any answer of the membership check.       *)
(* ------------------------------------------------------------------ *)
NextGate ==
    \/ Tick
    \/ \E u \in Subjects, data \in Buttons : Begin("cbq", u, data)
    \/ \E u \in Subjects, data \in Commands : Begin("cmd", u, data)
    \/ \E u \in Subjects : Begin("text_msg", u, NoVal)
    \/ \E tk \in Running, outcome \in MemberOutcomes : cbq(tk, outcome)
    \/ \E tk \in Running, outcome \in MemberOutcomes : cmd(tk, outcome)
    \/ \E tk \in Running, outcome \in MemberOutcomes : text_msg(tk, outcome)
    \/ \E tk \in Running, ok \in BOOLEAN : ask_openai(tk, ok)

SpecGate == Init /\ [][NextGate]_vars

(* ------------------------------------------------------------------ *)
(* The referral ledger: every id opens the bot, with any referral     *)
(* argument; payments and time go on.                                 *)
(* ------------------------------------------------------------------ *)
NextRef ==
    \/ Tick
    \/ \E u \in Ledger, arg \in Ledger \cup {NoArg} : start_cmd(u, arg)
    \/ \E u \in Subjects : successful_payment(u)

SpecRef == Init /\ [][NextRef]_vars

(* ------------------------------------------------------------------ *)
(* extend_vip on its own: called for the subject at any time, with    *)
(* any number of days from 0 to MaxDays, before and after the         *)
(* subject has an account.                                            *)
(* ------------------------------------------------------------------ *)
ExtendVip(u, days) ==
    /\ LET U1 == extend_vip(users, u, days, now)
       IN  /\ U1[u].exists => U1[u].vip_until <= MaxVipUntil
           /\ users' = U1
    /\ ev' = [op |-> "extend_vip", u |-> u, days |-> days, pre |-> users[u]]
    /\ UNCHANGED <<program, skew, now, referrals, payments, tasks, db_vars>>

NextVip ==
    \/ Tick
    \/ \E u \in Subjects : start_cmd(u, NoArg)
    \/ \E u \in Subjects, days \in 0..MaxDays : ExtendVip(u, days)

SpecVip == Init /\ [][NextVip]_vars

(* ------------------------------------------------------------------ *)
(* The milestone: every id opens the bot, with the subject's referral *)
(* link or with none.                                                 *)
(* ------------------------------------------------------------------ *)
NextMilestone ==
    \/ Tick
    \/ \E u \in Ids, arg \in Subjects \cup {NoArg} : start_cmd(u, arg)

SpecMilestone == Init /\ [][NextMilestone]_vars

(* ------------------------------------------------------------------ *)
(* The account store of db.py.  Every function opens its own           *)
(* connection and commits before it returns: one step each.           *)
(* ------------------------------------------------------------------ *)
\* Python values of db.py (None, a str, a dict in insertion order with str
\* keys and int values) and the values of a TEXT column.
PyNone == [py |-> "None"]

PyStr(v) == [py |-> "str", v |-> v]

PyDict(items) == [py |-> "dict", v |-> items]

SqlNull == [sql |-> "NULL"]

SqlText(v) == [sql |-> "TEXT", v |-> v]

\* state, state_payload: TEXT columns without a default, so NULL.
DbNewRow ==
    [exists |-> TRUE, referrals_count |-> 0,
     state |-> SqlNull, state_payload |-> SqlNull]

db_upsert_user(DU, user_id) ==
    IF DU[user_id].exists THEN DU ELSE [DU EXCEPT ![user_id] = DbNewRow]

\* The primary key of referrals is the pair (referrer_id, referred_id), and
\* the SELECT looks for that pair.
\* [ret |-> the value returned, users, referrals |-> the tables after it]
db_add_referral(DU, DR, referrer_id, referred_id) ==
    IF referrer_id = referred_id
    THEN [ret |-> FALSE, users |-> DU, referrals |-> DR]
    ELSE IF <<referrer_id, referred_id>> \in DR
    THEN [ret |-> FALSE, users |-> DU, referrals |-> DR]
    ELSE [ret |-> TRUE,
          users |-> IF DU[referrer_id].exists
                    THEN [DU EXCEPT ![referrer_id].referrals_count = @ + 1]
                    ELSE DU,
          referrals |-> DR \cup {<<referrer_id, referred_id>>}]

DbUpsertUser(u) ==
    /\ db_users' = db_upsert_user(db_users, u)
    /\ UNCHANGED <<program, main_vars, db_referrals>>

DbAddReferral(referrer_id, referred_id) ==
    /\ LET r == db_add_referral(db_users, db_referrals, referrer_id, referred_id)
       IN  /\ db_users' = r.users
           /\ db_referrals' = r.referrals
    /\ UNCHANGED <<program, main_vars>>

NextDb ==
    \/ \E u \in Ledger : DbUpsertUser(u)
    \/ \E r \in Ledger, x \in Ledger : DbAddReferral(r, x)

InitDb == program = "db.py" /\ InitTables

SpecDb == InitDb /\ [][NextDb]_vars

(* ------------------------------------------------------------------ *)
(* The conversation state of db.py: set_state and get_state.          *)
(* ------------------------------------------------------------------ *)
\* JSON text is a sequence of tokens.
Punct(c) == [tok |-> c]

StrTok(v) == [tok |-> "string", v |-> v]

IntTok(v) == [tok |-> "number", v |-> v]

RECURSIVE dumps_items(_)
dumps_items(items) ==
    IF items = <<>> THEN <<>>
    ELSE LET item == Head(items)
             rest == Tail(items)
         IN  <<StrTok(item[1]), Punct(":"), IntTok(item[2])>>
                 \o (IF rest = <<>> THEN <<>>
                     ELSE <<Punct(",")>> \o dumps_items(rest))

\* json.dumps of a dict.
json_dumps(d) == <<Punct("{")>> \o dumps_items(d.v) \o <<Punct("}")>>

RECURSIVE loads_items(_)
loads_items(toks) ==
    IF Len(toks) < 3 THEN <<>>
    ELSE <<<<toks[1].v, toks[3].v>>>>
             \o loads_items(SubSeq(toks, 5, Len(toks)))

\* json.loads of the text of an object.
json_loads(text) == PyDict(loads_items(SubSeq(text, 2, Len(text) - 1)))

\* Python truth of a payload argument and of a column value: None, the
\* empty dict, NULL and the empty text are false.
payload_truthy(p) == p # PyNone /\ p.v # <<>>

column_truthy(c) == c # SqlNull /\ c.v # <<>>

\* A str or None bound to a TEXT parameter, and read back from the row.
to_column(s) == IF s = PyNone THEN SqlNull ELSE SqlText(s.v)

from_column(c) == IF c = SqlNull THEN PyNone ELSE PyStr(c.v)

\* set_state: an UPDATE, so nothing happens without a row.
db_set_state(DU, user_id, state, payload) ==
    IF DU[user_id].exists
    THEN [DU EXCEPT
            ![user_id].state = to_column(state),
            ![user_id].state_payload =
                IF payload_truthy(payload) THEN SqlText(json_dumps(payload))
                ELSE SqlNull]
    ELSE DU

\* get_state: the pair (state, payload).
db_get_state(DU, user_id) ==
    LET u == DU[user_id]
    IN  IF ~u.exists THEN <<PyNone, PyNone>>
        ELSE <<from_column(u.state),
               IF column_truthy(u.state_payload)
               THEN json_loads(u.state_payload.v)
               ELSE PyNone>>

\* The states and payloads a caller passes.
StateArgs == {PyNone, PyStr(""), PyStr("wait_goal")}

PayloadArgs ==
    {PyNone, PyDict(<<>>), PyDict(<< <<"step", 1>> >>),
     PyDict(<< <<"step", 2>>, <<"tool", 1>> >>)}

DbSetState(u, s, p) ==
    /\ db_users' = db_set_state(db_users, u, s, p)
    /\ UNCHANGED <<program, main_vars, db_referrals>>

NextDbState ==
    \/ \E u \in Ledger : DbUpsertUser(u)
    \/ \E u \in Ledger, s \in StateArgs, p \in PayloadArgs : DbSetState(u, s, p)

SpecDbState == InitDb /\ [][NextDbState]_vars

(* ------------------------------------------------------------------ *)
(* Either store: a run of the referral ledger of main.py, or a run of *)
(* the store of db.py.                                                *)
(* ------------------------------------------------------------------ *)
InitStores == program \in {"main.py", "db.py"} /\ InitTables

NextStores ==
    \/ program = "main.py" /\ NextRef
    \/ program = "db.py" /\ NextDb

SpecStores == InitStores /\ [][NextStores]_vars

(* ------------------------------------------------------------------ *)
(* The challenge: the subject, somewhere in the thirty days, presses   *)
(* the start and done buttons over two days.  An account that is past  *)
(* day 0 was created and made its last claim before the first day.     *)
(* ------------------------------------------------------------------ *)
ChallengeRow(day) ==
    IF day = 0 THEN NoRow
    ELSE [NewRow(-1) EXCEPT !.challenge_day = day,
                            !.challenge_last_claim = -1]

InitChallenge ==
    /\ program = "main.py"
    /\ skew \in Skews
    /\ now = 0
    /\ \E day \in 0..30 :
           users = [i \in Ids |-> IF i \in Subjects THEN ChallengeRow(day)
                                  ELSE NoRow]
    /\ referrals = {}
    /\ payments = <<>>
    /\ tasks = EmptyBag
    /\ ev = NoEv
    /\ db_users = [i \in Ids |-> NoRow]
    /\ db_referrals = {}

NextChallenge ==
    \/ Tick
    \/ \E u \in Subjects, data \in {"challenge_start", "challenge_done"} :
           Begin("cbq", u, data)
    \/ \E tk \in Running, outcome \in MemberOutcomes : cbq(tk, outcome)

SpecChallenge == InitChallenge /\ [][NextChallenge]_vars

(* ================================================================== *)
(* Properties                                                         *)
(* ================================================================== *)
\* The day key of the current instant, and VIP status as the data model
\* states it: vip_until is set and strictly after now.
DayKey == now \div TicksPerDay

VipActive(row) == row.exists /\ row.vip_until # NULL /\ row.vip_until > now

\* The step just taken was the quota decision of an ask request.
Asked == ev.op = "ask"

Granted == Asked /\ ev.cost # "denied"

\* The usage the stored row stands for on the current day.
EffectiveUsed(row) == IF row.last_reset = DayKey THEN row.used_today ELSE 0

(* C1: bonus credits are spent before quota: a granted ask request of an
   account that holds credits is charged to the credits (credits goes down
   by 1, used_today is not incremented), and the daily counter is charged
   only when the account holds no credit. *)
C1_BonusBeforeQuota ==
    Granted =>
        /\ ev.pre.credits > 0 =>
              /\ users[ev.u].credits = ev.pre.credits - 1
              /\ users[ev.u].used_today = EffectiveUsed(ev.pre)
        /\ users[ev.u].used_today > EffectiveUsed(ev.pre) => ev.pre.credits = 0

(* C2: a non-VIP account without credits is granted at most DAILY_LIMIT ask
   requests per day key: the request is granted, and counted, exactly when
   the usage of the current day is below the limit, it is denied and
   nothing is counted once the limit is reached, and a stored count of an
   earlier day does not count. *)
C2_DailyLimit ==
    /\ \A u \in Ids : users[u].exists => users[u].used_today <= DAILY_LIMIT
    /\ (Asked /\ ~VipActive(ev.pre) /\ ev.pre.credits = 0) =>
          /\ users[ev.u].last_reset = DayKey
          /\ IF EffectiveUsed(ev.pre) < DAILY_LIMIT
             THEN /\ ev.cost = "quota"
                  /\ users[ev.u].used_today = EffectiveUsed(ev.pre) + 1
             ELSE /\ ev.cost = "denied"
                  /\ users[ev.u].used_today = EffectiveUsed(ev.pre)

\* A request is denied on the day the limit was reached.
C2_Witness ==
    /\ Asked /\ ev.cost = "denied"
    /\ ev.pre.used_today = DAILY_LIMIT /\ ev.pre.last_reset = DayKey
    /\ ~VipActive(ev.pre) /\ ev.pre.credits = 0

\* Between two steps the quota columns of an existing row change only in
\* the quota decision of a request.
ResetOnlyAtRequest ==
    \A u \in Ids :
        (users[u].exists /\ ev'.op # "ask") =>
            /\ users'[u].used_today = users[u].used_today
            /\ users'[u].last_reset = users[u].last_reset

(* C3: lazy daily reset: when the stored last_reset differs from the day
   key at the time of a request, the usage that request observes is 0
   whatever used_today holds, and the row is moved to the current day; the
   quota columns change at request time only (no scheduled job). *)
C3_LazyReset ==
    /\ [](Asked /\ ev.pre.last_reset # DayKey =>
             /\ ev.used = 0
             /\ users[ev.u].last_reset = DayKey
             /\ users[ev.u].used_today \in {0, 1})
    /\ [][ResetOnlyAtRequest]_vars

\* A request finds a count of an earlier day at the limit and observes 0.
C3_Witness ==
    /\ Asked /\ ev.pre.last_reset # DayKey /\ ev.pre.used_today = DAILY_LIMIT
    /\ ev.used = 0 /\ ev.cost = "quota"

\* Credits go down only by the single decrement of a request charged to
\* the bonus, taken when the account holds a credit.
CreditDecrement ==
    \A u \in Ids :
        (users[u].exists /\ users'[u].credits < users[u].credits) =>
            /\ users'[u].credits = users[u].credits - 1
            /\ users[u].credits > 0
            /\ ev'.op = "ask" /\ ev'.u = u /\ ev'.cost = "bonus"

(* C10: credits never go negative: every account holds credits >= 0 in
   every reachable state, and a credit is consumed only by one decrement
   of 1 taken when credits > 0, also when two requests of the account are
   in flight together. *)
C10_CreditsNonNegative ==
    /\ [](\A u \in Ids : users[u].exists => users[u].credits >= 0)
    /\ [][CreditDecrement]_vars

\* The last credit is taken while a second request of the same account
\* waits at the gate.
C10_Witness ==
    /\ Asked /\ ev.cost = "bonus" /\ ev.pre.credits = 1
    /\ users[ev.u].credits = 0
    /\ \E tk \in Running : tk.h = "text_msg" /\ tk.u = ev.u /\ tk.pc = "gate"

\* The step just taken recorded a payment; Payer then names who paid.
Paid == Len(payments') = Len(payments) + 1

Payer == payments'[Len(payments')]

(* C4: a confirmed payment extends VIP from the later of the current
   vip_until and now: the payment never leaves vip_until earlier than it
   was, and a purchase made while VIP is still active gives the previous
   vip_until plus VIP_DAYS. *)
C4_PaymentExtendsVip ==
    [][Paid =>
         LET before == users[Payer]
             after == users'[Payer]
         IN  /\ before.vip_until # NULL => after.vip_until >= before.vip_until
             /\ VipActive(before) =>
                    after.vip_until = before.vip_until + VIP_DAYS * TicksPerDay
      ]_vars

\* The accounts whose referral has been accepted, and the edges naming r.
Referred(R) == {e[2] : e \in R}

InvitedBy(R, r) == {e \in R : e[1] = r}

UniqueInvited == \A e1, e2 \in referrals : e1[2] = e2[2] => e1 = e2

\* A step rewards r: its credits go up, or its vip_until moves without a
\* payment of r.
Rewards(r) ==
    /\ users[r].exists
    /\ \/ users'[r].credits > users[r].credits
       \/ users'[r].vip_until # users[r].vip_until /\ ~(Paid /\ Payer = r)

\* Every rewarding step records exactly one new edge, of a user who had
\* no referrer yet, and is worth one flat bonus to the inviter it names.
RewardIsForNewReferred ==
    \A r \in Ids :
        Rewards(r) =>
            \E x \in Ids \ Referred(referrals) :
                /\ referrals' = referrals \cup {<<r, x>>}
                /\ users'[r].credits = users[r].credits + REF_BONUS_CREDITS

(* C5: the referral reward is applied at most once per referred user:
   whatever /start ref_X events arrive, repeated or naming other referrers,
   a referred user has at most one edge, edges stay, and every reward is
   the flat bonus of a step that records the edge of a user who had none. *)
C5_RewardOncePerReferred ==
    /\ []UniqueInvited
    /\ [][referrals \subseteq referrals' /\ RewardIsForNewReferred]_vars

\* One referrer has been rewarded for two referred users: two flat
\* bonuses and the milestone VIP.
C5_Witness ==
    \E r \in Ids :
        /\ users[r].exists
        /\ Cardinality(InvitedBy(referrals, r)) = 2
        /\ users[r].credits = 2 * REF_BONUS_CREDITS
        /\ users[r].vip_until # NULL

(* C5 as first stated: the reward granted on account of one referred user
   is exactly one flat bonus, so every inviter named by an edge holds one
   flat bonus per edge (no credit is spent in the referral ledger). *)
C5_ExactlyOneBonus ==
    \A r \in Ids :
        InvitedBy(referrals, r) # {} =>
            /\ users[r].exists
            /\ users[r].credits = REF_BONUS_CREDITS * Cardinality(InvitedBy(referrals, r))

(* C6: registering a referral edge does not by itself change the credits
   or the vip_until of the referrer; the reward waits until the referred
   user is fully unlocked. *)
C6_NoRewardAtRegistration ==
    [][\A r \in Ids :
          (users[r].exists /\ InvitedBy(referrals', r) # InvitedBy(referrals, r)) =>
              /\ users'[r].credits = users[r].credits
              /\ users'[r].vip_until = users[r].vip_until
      ]_vars

(* C7: referral registration is first-writer-wins and permanent: for a user
   without referrer referral_try_add(r, x) returns true and, called again,
   false; once x has a referrer every referral_try_add(r2, x) returns false
   and leaves the table as it is; no edge is ever deleted or overwritten. *)
C7_FirstWriterWins ==
    /\ [](/\ UniqueInvited
          /\ \A x \in Ids, r \in Ids :
                LET first == referral_try_add(referrals, r, x)
                    again == referral_try_add(first.referrals, r, x)
                IN  IF x \in Referred(referrals)
                    THEN ~first.ret /\ first.referrals = referrals
                    ELSE r # x =>
                           /\ first.ret /\ <<r, x>> \in first.referrals
                           /\ ~again.ret /\ again.referrals = first.referrals)
    /\ [][referrals \subseteq referrals']_vars

\* A user has a referrer while another account, which a later /start of
\* that user can name, exists.
C7_Witness ==
    \E e \in referrals, r2 \in Ids :
        r2 # e[1] /\ r2 # e[2] /\ users[r2].exists /\ users[e[1]].exists

(* C8: in the store of db.py a referral edge is recorded once per referred
   account: no referred_id has two different referrer_ids. *)
C8_DbOneReferrerPerReferred ==
    \A e1, e2 \in db_referrals : e1[2] = e2[2] => e1[1] = e2[1]

(* C9: self-referral is always rejected, in main.py and in db.py: the call
   with referrer = referred returns false, records no edge and grants no
   reward, so no account ever has itself as referrer. *)
C9_NoSelfReferral ==
    \A u \in Ids :
        /\ <<u, u>> \notin referrals
        /\ <<u, u>> \notin db_referrals
        /\ LET m == referral_try_add(referrals, u, u)
               s == start_referral(users, referrals, u, u, now)
               d == db_add_referral(db_users, db_referrals, u, u)
           IN  /\ ~m.ret /\ m.referrals = referrals
               /\ ~s.added /\ s.users = users /\ s.referrals = referrals
               /\ ~d.ret /\ d.referrals = db_referrals /\ d.users = db_users

\* Edges have been registered, by every possible referred user, and none
\* of them is a self-referral.
C9_Witness ==
    \/ program = "main.py" /\ Referred(referrals) = Ledger
    \/ program = "db.py" /\ Referred(db_referrals) = Ledger

\* What a non-VIP account can still be granted today: the rest of the
\* daily quota plus the bonus credits.
Avail(row) == (DAILY_LIMIT - EffectiveUsed(row)) + row.credits

(* C11: two text_msg handlers of one non-VIP user, interleaved at their
   awaits in any order, neither double-charge nor over-grant: every granted
   request finds something available and takes exactly one unit of it, and
   a request is denied only when nothing is available; so the grants never
   exceed the quota and credits that were there. *)
C11_NoDoubleCharge ==
    (Asked /\ ~ev.vip) =>
        LET before == Avail(ev.pre)
            after == Avail(users[ev.u])
        IN  IF ev.cost = "denied"
            THEN before = 0 /\ after = 0
            ELSE before > 0 /\ after = before - 1

\* The last unit of the daily quota has just been granted to one handler
\* while a second handler of the same user, with nothing left to spend,
\* is still waiting at the membership check.
C11_Witness ==
    /\ Asked /\ ev.cost = "quota"
    /\ Avail(users[ev.u]) = 0
    /\ ~VipActive(users[ev.u])
    /\ \E tk \in Running : tk.h = "text_msg" /\ tk.u = ev.u /\ tk.pc = "gate"

\* One whole /start ref_<r> of user x on the tables U, R: start_cmd has no
\* await before its closing reply, so two of them run one after the other.
RunStart(U, R, x, r) ==
    start_referral(upsert_user(U, x, date_today(now, skew)), R, x, r, now)

(* C12: two /start ref_ handlers for the same referred user x, naming the
   same or different referrers, in either order: at most one edge insertion
   succeeds (exactly one when x has no referrer yet and an attempt names
   somebody else than x), and a handler whose insertion failed leaves every
   credit and vip_until as it found them. *)
C12_ConcurrentStartOnce ==
    \A x \in Ids, r1 \in Ids, r2 \in Ids :
        LET base == upsert_user(users, x, date_today(now, skew))
            a == RunStart(users, referrals, x, r1)
            b == RunStart(a.users, a.referrals, x, r2)
        IN  /\ ~(a.added /\ b.added)
            /\ (x \notin Referred(referrals) /\ (r1 # x \/ r2 # x)) =>
                   (a.added \/ b.added)
            /\ ~a.added => (a.users = base /\ a.referrals = referrals)
            /\ ~b.added => (b.users = a.users /\ b.referrals = a.referrals)
            /\ Cardinality(b.referrals \ referrals) <= 1
            /\ Cardinality({r \in Ids : b.users[r] # base[r]}) <= 1

\* x has been registered for one referrer, who holds the bonus, while the
\* other account it could have named holds none.
C12_Witness ==
    \E e \in referrals, r2 \in Ids :
        /\ r2 # e[1] /\ r2 # e[2]
        /\ users[e[1]].exists /\ users[e[1]].credits = REF_BONUS_CREDITS
        /\ users[r2].exists /\ users[r2].credits = 0
        /\ InvitedBy(referrals, r2) = {}

\* The statuses of a channel member, and the handlers waiting at the gate.
MemberStatus == {"member", "administrator", "creator"}

AtGate == {tk \in Running : tk.pc = "gate"}

\* What a handler does, from the answer o of its membership check on:
\* [users |-> the table after it, ai |-> whether it goes on to ask_openai].
AfterGate(U, tk, o) ==
    IF tk.h = "cbq" THEN [users |-> cbq_effect(U, tk, o, now), ai |-> FALSE]
    ELSE IF tk.h = "cmd" THEN [users |-> cmd_effect(U, tk, o), ai |-> FALSE]
    ELSE LET e == text_msg_effect(U, tk, o, now)
         IN  [users |-> e.users, ai |-> e.ai]

\* Every update the subject can send: handler and callback data or command.
Updates ==
    {Task("cbq", u, "gate", d) : u \in Subjects, d \in Buttons}
        \cup {Task("cmd", u, "gate", d) : u \in Subjects, d \in Commands}
        \cup {Task("text_msg", u, "gate", NoVal) : u \in Subjects}

(* C13: every call of a paid AI feature (ask, reels audit, photo prompt)
   comes after the quota decision and only when the decision allows it: a
   text_msg that goes on to ask_openai has taken the decision and was
   granted as VIP, from the daily quota or from a bonus credit. *)
C13_QuotaBeforeAI ==
    \A tk \in AtGate, o \in MemberOutcomes :
        tk.h = "text_msg" =>
            LET e == text_msg_effect(users, tk, o, now)
            IN  e.ai => (e.ev.op = "ask" /\ e.ev.cost \in {"vip", "quota", "bonus"})

(* C14: every gated handler checks the membership anew on each invocation
   and, when the check says no, is locked: whatever the tables hold from
   earlier successful checks, the handler serves nothing and leaves every
   mode, used_today, last_reset, credits and challenge field alone.  This
   holds of the handlers waiting at the gate and of a whole new invocation
   (whose upsert_user changes nothing of an existing account). *)
C14_ChannelLocked ==
    \A o \in MemberOutcomes \ MemberStatus :
        /\ \A tk \in AtGate :
              LET r == AfterGate(users, tk, o)
              IN  r.users = users /\ ~r.ai
        /\ \A tk \in Updates :
              LET U0 == upsert_user(users, tk.u, date_today(now, skew))
                  r == AfterGate(U0, tk, o)
              IN  /\ r.users = U0 /\ ~r.ai
                  /\ users[tk.u].exists => r.users = users

\* An account that earlier checks have let into ask mode and to a request,
\* on the second day of its challenge, with a button press at the gate.
C14_Witness ==
    \E tk \in AtGate :
        /\ tk.h = "cbq" /\ tk.data \in ModeButtons
        /\ users[tk.u].mode = "ask"
        /\ users[tk.u].used_today > 0
        /\ users[tk.u].challenge_day = 2

(* C15: the membership check fails closed: an error of get_chat_member,
   like every status other than member, administrator and creator, gives
   false, and the handler then does what it does for a user who has left:
   it serves nothing and changes nothing. *)
C15_FailClosed ==
    \A o \in MemberOutcomes :
        /\ is_subscribed(o) <=> o \in MemberStatus
        /\ o \notin MemberStatus =>
              \A tk \in AtGate :
                  /\ AfterGate(users, tk, o) = AfterGate(users, tk, "left")
                  /\ AfterGate(users, tk, o) = [users |-> users, ai |-> FALSE]

\* A text is waiting at the gate of an account in a mode that serves an AI
\* answer to members.
C15_Witness ==
    \E tk \in AtGate :
        /\ tk.h = "text_msg"
        /\ users[tk.u].mode \in {"ask", "reels", "photo_goal"}
        /\ AfterGate(users, tk, "member").ai

(* C16: an account whose channel check passes but whose secondary
   verification is not complete is SECONDARY_LOCKED: it is served no gated
   feature, so its handlers change nothing and call no AI. *)
C16_SecondaryLocked ==
    \A tk \in AtGate, o \in MemberStatus :
        ~secondary_verified(users[tk.u]) =>
            LET r == AfterGate(users, tk, o)
            IN  r.users = users /\ ~r.ai

(* C17: every registered referral grants the referrer named in it exactly
   the flat bonus: a step that records an edge naming r leaves r with an
   account holding REF_BONUS_CREDITS more credits than before. *)
C17_FlatBonusPerEdge ==
    [][\A e \in referrals' \ referrals :
          LET r == e[1]
              had == IF users[r].exists THEN users[r].credits ELSE 0
          IN  users'[r].exists /\ users'[r].credits = had + REF_BONUS_CREDITS
      ]_vars

\* The later of a stored vip_until and the instant t; NULL counts as t.
LaterOf(vu, t) == IF vu # NULL /\ vu > t THEN vu ELSE t

(* C18: the milestone VIP is granted when, and only when, a registered
   referral makes the referrer's count reach REF_VIP_INVITES: that step
   extends vip_until by REF_VIP_DAYS, and every other referral leaves
   vip_until as it was (it grants the credit only). *)
C18_MilestoneOnlyAtCrossing ==
    [][\A e \in referrals' \ referrals :
          LET r == e[1]
              cnt == referral_count(referrals', r)
          IN  users[r].exists =>
                  IF cnt = REF_VIP_INVITES
                  THEN users'[r].vip_until =
                           LaterOf(users[r].vip_until, now) + REF_VIP_DAYS * TicksPerDay
                  ELSE users'[r].vip_until = users[r].vip_until
      ]_vars

VipNeverDecreases ==
    \A u \in Ids :
        (users[u].exists /\ users[u].vip_until # NULL) =>
            users'[u].vip_until >= users[u].vip_until

(* C19: extend_vip is additive and monotonic: called at now with days >= 0
   it sets vip_until to the later of the old vip_until and now (a missing
   vip_until counts as now) plus days, so over calls at non-decreasing
   times vip_until never decreases. *)
C19_ExtendVipMonotonic ==
    /\ []((ev.op = "extend_vip" /\ ev.pre.exists) =>
             users[ev.u].vip_until =
                 LaterOf(ev.pre.vip_until, now) + ev.days * TicksPerDay)
    /\ [][VipNeverDecreases]_vars

\* A call that stacks days on a VIP that is still running.
C19_Witness ==
    /\ ev.op = "extend_vip" /\ ev.pre.exists /\ ev.days > 0
    /\ ev.pre.vip_until # NULL /\ ev.pre.vip_until > now
    /\ users[ev.u].vip_until = ev.pre.vip_until + ev.days * TicksPerDay

(* C20: is_vip holds exactly when vip_until is set and strictly after now:
   no record, no vip_until or vip_until <= now is not VIP.  VIP therefore
   lapses by the passage of time alone, and the ask decision then treats
   the account as a free one: it is charged to the quota or to a credit,
   and denied at the daily limit without credits. *)
C20_IsVip ==
    /\ ~is_vip(NoRow, now)
    /\ \A u \in Ids :
          is_vip(users[u], now) <=>
              (users[u].exists /\ users[u].vip_until # NULL
                 /\ users[u].vip_until > now)
    /\ Asked =>
          /\ ev.vip <=> (ev.pre.vip_until # NULL /\ ev.pre.vip_until > now)
          /\ ev.vip <=> ev.cost = "vip"
          /\ (~ev.vip /\ EffectiveUsed(ev.pre) >= DAILY_LIMIT /\ ev.pre.credits = 0)
                 => ev.cost = "denied"

\* A paid VIP has run out at this very instant and the account, at its
\* daily limit, is denied.
C20_Witness ==
    /\ Asked /\ ev.cost = "denied"
    /\ ev.pre.vip_until = now

(* C21: quota accounting is the same for VIP and free accounts: with no
   bonus credits every granted request is charged to the quota, so it
   raises used_today by exactly 1 over the usage that counts today and
   stamps last_reset with today (a VIP account only has another limit). *)
C21_QuotaChargedAlike ==
    (Granted /\ ev.pre.credits = 0) =>
        /\ users[ev.u].used_today = EffectiveUsed(ev.pre) + 1
        /\ users[ev.u].last_reset = DayKey

(* C22: deciding whether an ask request is allowed does not change the
   account: a request that is charged nothing, because it is denied or
   because the account is VIP, leaves the row exactly as it was. *)
C22_DecisionLeavesAccount ==
    (Asked /\ ev.cost \in {"denied", "vip"}) => users[ev.u] = ev.pre

\* The dates date.today() can give at a call now or on the next day.
UpsertDates == {date_today(now, skew), date_today(now, skew) + 1}

NeverDeleted ==
    \A u \in Ids :
        /\ users[u].exists => users'[u].exists
        /\ db_users[u].exists => db_users'[u].exists

(* C23: account creation is an idempotent upsert, in main.py and in db.py:
   the first upsert_user of an id creates its one record with used_today 0,
   credits 0 and no VIP; an upsert_user of a known id, on whatever date,
   changes no field of any record; no step deletes an account. *)
C23_UpsertIdempotent ==
    /\ [](\A u \in Ids, d1 \in UpsertDates, d2 \in UpsertDates :
             LET U1 == upsert_user(users, u, d1)
                 U2 == upsert_user(U1, u, d2)
                 D1 == db_upsert_user(db_users, u)
                 D2 == db_upsert_user(D1, u)
             IN  /\ U1[u].exists /\ U2 = U1
                 /\ users[u].exists => U1 = users
                 /\ ~users[u].exists =>
                        /\ U1[u].used_today = 0 /\ U1[u].credits = 0
                        /\ U1[u].vip_until = NULL /\ U1[u].mode = "menu"
                        /\ U1[u].challenge_day = 0
                 /\ \A v \in Ids \ {u} : U1[v] = users[v]
                 /\ D1[u].exists /\ D2 = D1
                 /\ db_users[u].exists => D1 = db_users
                 /\ \A v \in Ids \ {u} : D1[v] = db_users[v])
    /\ [][NeverDeleted]_vars

\* An account that has earned credits and VIP and whose last_reset is not
\* the date a new row would get: a later upsert_user that rewrote the row
\* would show.
C23_Witness ==
    \E u \in Ids :
        /\ users[u].exists
        /\ users[u].credits > 0 /\ users[u].vip_until # NULL
        /\ users[u].last_reset # date_today(now, skew)

\* The step is the return of ask_openai to a handler waiting for it.
AiReturns(tk) == tk \in Running /\ tk.pc = "ai" /\ tasks' = Retire(tasks, tk)

ChargeKept ==
    (\E tk \in Running : AiReturns(tk)) =>
        \A u \in Ids :
            users[u].exists =>
                /\ users'[u].used_today = users[u].used_today
                /\ users'[u].credits = users[u].credits

(* C24: a granted ask request of a non-VIP account is charged exactly one
   unit, to used_today or to credits and never to both; used_today never
   exceeds DAILY_LIMIT; the charge is made before ask_openai is called
   (the handler is then waiting for it) and the return of ask_openai,
   with an answer or after a failure, does not undo it. *)
C24_OneUnitPerAsk ==
    /\ [](/\ \A u \in Ids :
                users[u].exists => users[u].used_today <= DAILY_LIMIT
          /\ (Granted /\ ~ev.vip) =>
                /\ ev.cost \in {"quota", "bonus"}
                /\ ev.cost = "quota" =>
                      /\ EffectiveUsed(ev.pre) < DAILY_LIMIT
                      /\ users[ev.u].used_today = EffectiveUsed(ev.pre) + 1
                      /\ users[ev.u].credits = ev.pre.credits
                /\ ev.cost = "bonus" =>
                      /\ EffectiveUsed(ev.pre) >= DAILY_LIMIT
                      /\ ev.pre.credits > 0
                      /\ users[ev.u].credits = ev.pre.credits - 1
                      /\ users[ev.u].used_today = EffectiveUsed(ev.pre)
                      /\ users[ev.u].used_today = ev.pre.used_today
                /\ \E tk \in Running :
                      tk.h = "text_msg" /\ tk.u = ev.u /\ tk.pc = "ai"
                      /\ tk.data = "ask")
    /\ [][ChargeKept]_vars

\* A request has just been charged to the credits, the daily quota being
\* used up, and its handler waits for ask_openai.
C24_Witness ==
    /\ Granted /\ ~ev.vip /\ ev.cost = "bonus"
    /\ ev.pre.used_today = DAILY_LIMIT /\ ev.pre.last_reset = DayKey
    /\ users[ev.u].credits = ev.pre.credits - 1
    /\ \E tk \in Running : tk.u = ev.u /\ tk.pc = "ai" /\ tk.data = "ask"

(* C25: a successful payment of an existing account appends exactly one
   payment record, that of the payer, and makes the account VIP at once
   with vip_until at least now + VIP_DAYS; the handler takes no membership
   check (it never waits at the gate) and changes no other account. *)
C25_PaymentGrantsVip ==
    [][Paid =>
         /\ payments' = Append(payments, Payer)
         /\ users[Payer].exists
         /\ users'[Payer].vip_until # NULL
         /\ users'[Payer].vip_until >= now + timedelta(VIP_DAYS)
         /\ is_vip(users'[Payer], now')
         /\ tasks' = tasks
         /\ \A v \in Ids \ {Payer} : users'[v] = users[v]
      ]_vars

\* A payment made after the first day: the payer is VIP until
\* now + VIP_DAYS, and the last payment record is the payer's.
C25_Witness ==
    /\ now > 0 /\ Len(payments) > 0
    /\ LET u == payments[Len(payments)]
       IN  /\ users[u].vip_until = now + timedelta(VIP_DAYS)
           /\ is_vip(users[u], now)
    /\ ev = NoEv

OneShotModes == {"reels", "photo_goal"}

\* The return of ask_openai closes a reels or photo_goal text with
\* set_mode "menu" and leaves the mode alone after an ask answer.
ModeAfterAnswer ==
    \A tk \in Running :
        AiReturns(tk) =>
            /\ \A v \in Ids \ {tk.u} : users'[v] = users[v]
            /\ IF tk.data \in OneShotModes
               THEN users'[tk.u].mode = "menu"
               ELSE users'[tk.u] = users[tk.u]

(* C26: the mode of every account is one of menu, ask, reels, photo_wait,
   photo_goal; a text in reels or photo_goal mode goes to ask_openai once,
   without touching the mode first, and the mode is menu when the answer
   has gone out; the quota decision and the answer of an ask request leave
   the mode ask; whatever handler waits at the gate, a failed membership
   check leaves the mode as it is. *)
C26_ModeMachine ==
    /\ [](/\ \A u \in Ids : users[u].exists => users[u].mode \in Modes
          /\ \A tk \in AtGate, o \in MemberOutcomes :
                LET r == AfterGate(users, tk, o)
                    mode == users[tk.u].mode
                IN  /\ ~is_subscribed(o) =>
                          \A u \in Ids :
                              users[u].exists =>
                                  r.users[u].mode = users[u].mode
                    /\ (is_subscribed(o) /\ tk.h = "text_msg"
                            /\ mode \in OneShotModes) =>
                          r.ai /\ r.users = users
                    /\ (is_subscribed(o) /\ tk.h = "text_msg"
                            /\ mode = "ask") =>
                          r.users[tk.u].mode = "ask"
          /\ \A tk \in Running :
                tk.pc = "ai" => tk.data \in OneShotModes \cup {"ask"}
          /\ Asked => users[ev.u].mode = "ask")
    /\ [][ModeAfterAnswer]_vars

\* A photo_goal text is waiting for ask_openai and the mode is still
\* photo_goal, while a second text of the account waits at the gate.
C26_Witness ==
    \E tk \in Running :
        /\ tk.pc = "ai" /\ tk.data = "photo_goal"
        /\ users[tk.u].mode = "photo_goal"
        /\ \E t2 \in AtGate : t2.h = "text_msg" /\ t2.u = tk.u

\* The step is the end of a cbq handler of the button data.
Pressed(tk, data) ==
    /\ tk \in Running /\ tk.h = "cbq" /\ tk.data = data
    /\ tasks' = Retire(tasks, tk)

\* What a press of challenge_done does to the row, and to nothing else.
DoneStep ==
    \A tk \in Running :
        Pressed(tk, "challenge_done") =>
            LET day == users[tk.u].challenge_day
            IN  \/ users' = users
                \/ /\ 1 <= day /\ day < 30
                   /\ users' = [users EXCEPT
                          ![tk.u].challenge_day = day + 1,
                          ![tk.u].challenge_last_claim = DayKey]

\* challenge_day moves to 1 (challenge_start) or up by one.
DayMoves ==
    \A u \in Ids :
        (users[u].exists /\ users'[u].challenge_day # users[u].challenge_day)
            => \/ users'[u].challenge_day = 1
               \/ /\ users'[u].challenge_day = users[u].challenge_day + 1
                  /\ 1 <= users[u].challenge_day
                  /\ users[u].challenge_day < 30

(* C27: challenge progress stays in range: challenge_day is always in
   0..30; a press of challenge_done leaves the account as it is or moves
   challenge_day up by exactly 1, the latter only from a day in 1..29; at
   day 0 and at day 30 it does nothing. *)
C27_ChallengeInRange ==
    /\ [](\A u \in Ids :
             users[u].exists =>
                 LET day == users[u].challenge_day
                     U1 == challenge_done(users, u, now)
                 IN  /\ day \in 0..30
                     /\ U1[u].challenge_day \in 0..30
                     /\ day \in {0, 30} => U1 = users)
    /\ [][DoneStep /\ DayMoves]_vars

\* The last day has been reached today and the button is pressed again.
C27_Witness ==
    \E tk \in AtGate :
        /\ tk.h = "cbq" /\ tk.data = "challenge_done"
        /\ users[tk.u].challenge_day = 30
        /\ users[tk.u].challenge_last_claim = DayKey

\* A rise of challenge_day is one step, made on a day without a claim,
\* and it stamps the day; the stamp only ever moves to the current day.
OneRisePerDay ==
    \A u \in Ids :
        users[u].exists =>
            /\ users'[u].challenge_day > users[u].challenge_day =>
                  /\ users'[u].challenge_day = users[u].challenge_day + 1
                  /\ users[u].challenge_last_claim # DayKey
                  /\ users'[u].challenge_last_claim = DayKey
            /\ users'[u].challenge_last_claim # users[u].challenge_last_claim
                  => users'[u].challenge_last_claim = DayKey

(* C28: with CHALLENGE_DAILY_GATE on, challenge_day rises at most one step
   per calendar day: every rise is by 1, happens on a day that has no claim
   yet and makes the day claimed; a claimed day stays claimed until the day
   key changes, and on a claimed day challenge_done changes nothing, after
   a challenge_start as after an advance. *)
C28_OneStepPerDay ==
    /\ [](\A u \in Ids :
             users[u].exists =>
                 /\ users[u].challenge_last_claim \in {NULL} \cup (-1..DayKey)
                 /\ users[u].challenge_last_claim = DayKey =>
                        /\ users[u].challenge_day >= 1
                        /\ challenge_done(users, u, now) = users)
    /\ [][OneRisePerDay]_vars

\* The second day: the account advanced today, from a day it reached
\* before, and challenge_done is pressed once more.
C28_Witness ==
    \E tk \in AtGate :
        /\ tk.h = "cbq" /\ tk.data = "challenge_done"
        /\ DayKey >= 1
        /\ users[tk.u].challenge_last_claim = DayKey
        /\ users[tk.u].challenge_day \in 3..29

\* The edges of the db.py store whose referrer is u.
DbEdgesOf(u) == {e \in db_referrals : e[1] = u}

(* C29: in the store of db.py, for every existing user referrals_count
   equals the number of referral edges whose referrer is that user. *)
C29_DbCountMatchesEdges ==
    \A u \in Ids :
        db_users[u].exists =>
            db_users[u].referrals_count = Cardinality(DbEdgesOf(u))

(* C30: state round trip of db.py: for an existing user, get_state right
   after set_state(u, s, p) returns exactly (s, p), for every state s and
   every payload p, None and the empty dict included, and set_state
   changes the state of no other user. *)
C30_StateRoundTrip ==
    \A u \in Ids, s \in StateArgs, p \in PayloadArgs :
        db_users[u].exists =>
            LET D1 == db_set_state(db_users, u, s, p)
            IN  /\ db_get_state(D1, u) = <<s, p>>
                /\ \A v \in Ids \ {u} :
                      db_get_state(D1, v) = db_get_state(db_users, v)

====
